---- MODULE Spec2Model ----
(***************************************************************************)
(* State-machine model of src/app.py, the Streamlit dashboard "Smart       *)
(* Climate Monitor".  One script run (a render) walks through the script   *)
(* top to bottom: init_firebase, the sidebar menu, then either the Data    *)
(* History page or the Control page.  The remote Firebase store, the       *)
(* st.cache_data caches (process wide) and the widget state of the two     *)
(* toggles (session wide) persist between runs.                            *)
(***************************************************************************)
EXTENDS Integers, Sequences, FiniteSets, TLC

VARIABLES
    secrets,        \* st.secrets: the set of secret names that are present
    malformed,      \* "no" | "cert" | "app": which SDK call rejects the credentials
    app,            \* firebase_admin default app exists (get_app() succeeds)
    initCount,      \* number of successful initialize_app calls in this process
    credLoads,      \* number of times the credential branch (lines 22-51) ran
    controls,       \* store: controls/{device}_override, a JSON value
    current_status, \* store: current_status, a JSON object
    data_logs,      \* store: data_logs, key -> record
    now,            \* wall clock, seconds
    histCache,      \* st.cache_data entry of get_data_history(limit=15)
    statusCache,    \* st.cache_data entry of read_current_status()
    ctrlCache,      \* st.cache_data entries of get_current_control_state(device)
    selected,       \* value of the sidebar option_menu
    session,        \* widget state of the two st.toggle widgets
    pc,             \* position of the running script, "idle" between runs
    outcome,        \* how the last run ended / "running"
    root_ref,       \* TRUE when init_firebase returned db.reference('/')
    cur,            \* current_light_state / current_relay_state
    status,         \* (temp, humidity) returned by read_current_status
    rawLogs,        \* logs fetched at line 72 by the last executed fetch
    df_history,     \* the DataFrame returned by get_data_history
    table,          \* latest_15_df_display
    rendered,       \* toggles rendered in this run
    view,           \* page whose rendering this run started, or "none"
    storeOps,       \* remote store operations attempted in this run
    failed,         \* remote store operations that raised in this run
    faults,         \* number of injected store failures so far
    writes,         \* set_override calls since the last user event
    reruns,         \* st.rerun() calls since the last user event
    lastEvent       \* the last user event

vars == << secrets, malformed, app, initCount, credLoads, controls,
           current_status, data_logs, now, histCache, statusCache, ctrlCache,
           selected, session, pc, outcome, root_ref, cur, status, rawLogs,
           df_history, table, rendered, view, storeOps, failed, faults,
           writes, reruns, lastEvent >>

processVars == << secrets, malformed >>
storeVars   == << controls, current_status, data_logs >>
cacheVars   == << histCache, statusCache, ctrlCache >>
pageVars    == << cur, status, rawLogs, df_history, table >>

-----------------------------------------------------------------------------
(* Bounds of the model *)

MaxTime   == 90     \* the clock stops advancing here
TickStep  == 30     \* seconds per Tick
MaxFaults == 2      \* injected store failures per behaviour
MaxCount  == 3      \* cap of the writes / reruns / credLoads counters
MaxRecs   == 3      \* records in a store of arbitrary records
MaxKeys   == 20     \* records in a store of well-formed records

(* Program constants *)

HistoryTTL == 60    \* @st.cache_data(ttl=60) on get_data_history
StatusTTL  == 60    \* @st.cache_data(ttl=60) on read_current_status
ControlTTL == 60    \* @st.cache_data(ttl=60) on get_current_control_state
Limit      == 15    \* get_data_history(limit=15)
DefaultIndex == 0   \* option_menu(default_index=0)

Devices == {"light", "relay"}
Options == << "Data History", "Control" >>

RequiredKeys ==
    { "firebase_type", "firebase_project_id", "firebase_private_key",
      "firebase_client_email", "firebase_token_uri", "firebase_auth_uri",
      "firebase_auth_provider_x509_cert_url", "firebase_client_x509_cert_url",
      "firebase_client_id" }

Min(a, b) == IF a < b THEN a ELSE b
Bump(n) == Min(n + 1, MaxCount)

-----------------------------------------------------------------------------
(* Text.  A Python str is a sequence of one-character strings. *)

DigitChars == << "0", "1", "2", "3", "4", "5", "6", "7", "8", "9" >>
Digits == { DigitChars[i] : i \in 1..10 }
DigitVal(c) == (CHOOSE i \in 1..10 : DigitChars[i] = c) - 1

(* Code points of the characters that occur in keys. *)
Ord(c) == IF c \in Digits THEN 48 + DigitVal(c)
          ELSE IF c = "-" THEN 45
          ELSE IF c = "_" THEN 95
          ELSE 107   \* "k"

RECURSIVE LexLess(_, _)
LexLess(a, b) ==
    IF a = << >> THEN b # << >>
    ELSE IF b = << >> THEN FALSE
    ELSE IF a[1] = b[1] THEN LexLess(Tail(a), Tail(b))
    ELSE Ord(a[1]) < Ord(b[1])

RECURSIVE StripLeft(_)
StripLeft(s) == IF s # << >> /\ s[1] = " " THEN StripLeft(Tail(s)) ELSE s

RECURSIVE StripRight(_)
StripRight(s) ==
    IF s # << >> /\ s[Len(s)] = " " THEN StripRight(SubSeq(s, 1, Len(s) - 1))
    ELSE s

RECURSIVE DigitsValue(_, _)
DigitsValue(s, acc) ==
    IF s = << >> THEN acc
    ELSE IF s[1] = "_" THEN DigitsValue(Tail(s), acc)
    ELSE DigitsValue(Tail(s), 10 * acc + DigitVal(s[1]))

(* line 84: int(timestamp_ms) on a str: surrounding whitespace is stripped,
   one optional sign, then decimal digits, single underscores allowed
   between digits.  ok = FALSE stands for ValueError. *)
ParseInt(s) ==
    LET t    == StripRight(StripLeft(s))
        neg  == t # << >> /\ t[1] = "-"
        body == IF t # << >> /\ t[1] \in {"-", "+"} THEN Tail(t) ELSE t
        wellFormed ==
            /\ body # << >>
            /\ body[1] \in Digits
            /\ body[Len(body)] \in Digits
            /\ \A i \in 1..Len(body) : body[i] \in Digits \cup {"_"}
            /\ \A i \in 1..(Len(body) - 1) : ~(body[i] = "_" /\ body[i + 1] = "_")
    IN  IF wellFormed
        THEN [ok |-> TRUE,
              val |-> IF neg THEN 0 - DigitsValue(body, 0) ELSE DigitsValue(body, 0)]
        ELSE [ok |-> FALSE, val |-> 0]

-----------------------------------------------------------------------------
(* Records of data_logs.  A record is null (None / empty) or a mapping whose
   keys are `fields`; timestamp is an integer or a text. *)

TsInt(n) == [kind |-> "int", int |-> n, str |-> << >>]
TsStr(s) == [kind |-> "str", int |-> 0, str |-> s]

Sensor(t)  == [temp |-> t, humidity |-> 40, light_lvl |-> 300, motion_state |-> 0]
Actuator   == [relay_state |-> 0, light_state |-> 1]

Log(fs, ts, t) ==
    [null |-> FALSE, fields |-> fs, timestamp |-> ts,
     sensor_logs |-> Sensor(t), actuator_logs |-> Actuator]
NullLog ==
    [null |-> TRUE, fields |-> {}, timestamp |-> TsInt(0),
     sensor_logs |-> Sensor(0), actuator_logs |-> Actuator]

AllFields == {"timestamp", "sensor_logs", "actuator_logs"}

IsValidLogSensorOnly(log) == ~log.null /\ "sensor_logs" \in log.fields

(* line 79: if log and 'sensor_logs' in log and 'actuator_logs' in log *)
IsValidLog(log) ==
    /\ ~log.null
    /\ "sensor_logs" \in log.fields
    /\ "actuator_logs" \in log.fields

NormalizeTsNoParse(log) ==
    LET t == IF "timestamp" \in log.fields THEN log.timestamp ELSE TsInt(0)
    IN  IF t.kind = "str" THEN 0 ELSE t.int

(* lines 80-86: timestamp_ms = log.get('timestamp', 0); text is parsed,
   ValueError gives 0 *)

NormalizeTs(log) ==
    LET t == IF "timestamp" \in log.fields THEN log.timestamp ELSE TsInt(0)
    IN  IF t.kind = "str"
        THEN (IF ParseInt(t.str).ok THEN ParseInt(t.str).val ELSE 0)
        ELSE t.int

(* line 104: pd.to_datetime(seconds, unit='s'), as (day, second of day) *)
ToDatetime(ts) == [day |-> ts \div 86400, sec |-> ts % 86400]

TimeLess(a, b) == a.day < b.day \/ (a.day = b.day /\ a.sec < b.sec)

(* lines 88-96 and 104-106: the row of one valid record, with its index *)
Row(log) ==
    [Timestamp |-> ToDatetime(NormalizeTs(log)),
     timestamp_ms |-> NormalizeTs(log),
     temp |-> log.sensor_logs.temp,
     humidity |-> log.sensor_logs.humidity,
     light_lvl |-> log.sensor_logs.light_lvl,
     motion_state |-> log.sensor_logs.motion_state,
     relay_state |-> log.actuator_logs.relay_state,
     light_state |-> log.actuator_logs.light_state]

(* line 72: order_by_key() on string keys is lexicographic by code point *)
KeyLess(a, b) == LexLess(a, b)

RECURSIVE SortKeys(_)
SortKeys(S) ==
    IF S = {} THEN << >>
    ELSE LET m == CHOOSE k \in S : \A j \in S : j = k \/ KeyLess(k, j)
         IN  << m >> \o SortKeys(S \ {m})

OrderByKey(logs) ==
    LET ks == SortKeys(DOMAIN logs)
    IN  [i \in 1..Len(ks) |-> << ks[i], logs[ks[i]] >>]

LimitToFirst(seq, n) == SubSeq(seq, 1, Min(n, Len(seq)))

LimitToLast(seq, n) ==
    IF Len(seq) <= n THEN seq ELSE SubSeq(seq, Len(seq) - n + 1, Len(seq))

(* line 72: logs_ref.order_by_key().limit_to_last(limit).get() *)
FetchLogs(logs, limit) == LimitToLast(OrderByKey(logs), limit)

(* lines 77-99: one row per valid record, in the order of logs.items() *)
RECURSIVE BuildRows(_)
BuildRows(raw) ==
    IF raw = << >> THEN << >>
    ELSE (IF IsValidLog(raw[1][2]) THEN << Row(raw[1][2]) >> ELSE << >>)
         \o BuildRows(Tail(raw))

(* DataFrame.sort_index: a frame whose index is already monotonic in the
   requested direction is returned as it is; otherwise the rows are ordered
   by the index with kind='quicksort', which fixes no order among equal
   index values. *)
Before(a, b, ascending) == IF ascending THEN TimeLess(a, b) ELSE TimeLess(b, a)

IsMonotonic(df, ascending) ==
    \A i \in 1..(Len(df) - 1) : ~Before(df[i + 1].Timestamp, df[i].Timestamp, ascending)

RECURSIVE Orders(_, _, _)
Orders(df, S, ascending) ==
    IF S = {} THEN { << >> }
    ELSE LET firsts == { i \in S : \A j \in S :
                            ~Before(df[j].Timestamp, df[i].Timestamp, ascending) }
         IN  UNION { { << df[i] >> \o r : r \in Orders(df, S \ {i}, ascending) }
                     : i \in firsts }

SortIndex(df, ascending) ==
    IF IsMonotonic(df, ascending) THEN { df }
    ELSE Orders(df, 1..Len(df), ascending)

Reverse(s) == [i \in 1..Len(s) |-> s[Len(s) + 1 - i]]

-----------------------------------------------------------------------------
(* The remote store and the caches *)

JsonBools == {"null", "true", "false"}
ToJson(b) == IF b THEN "true" ELSE "false"
Bool(v) == v = "true"                       \* line 199: bool(state)

NA == "N/A"
NullStatus == [fields |-> {}, temp |-> NA, humidity |-> NA]
Statuses ==
    { NullStatus,
      [fields |-> {"temp", "humidity"}, temp |-> "21.5", humidity |-> "40"],
      [fields |-> {"temp"}, temp |-> "21.5", humidity |-> NA] }

(* lines 179-181: status.get('temp', 'N/A'), status.get('humidity', 'N/A') *)
StatusOf(s) ==
    IF s.fields = {} THEN << NA, NA >>
    ELSE << IF "temp" \in s.fields THEN s.temp ELSE NA,
            IF "humidity" \in s.fields THEN s.humidity ELSE NA >>

NoEntry(v) == [valid |-> FALSE, at |-> 0, val |-> v]
Entry(v)   == [valid |-> TRUE, at |-> now, val |-> v]

(* st.cache_data(ttl=...): an entry is served while it is younger than ttl;
   the cache is keyed by the function's source, so it outlives a script run *)
Fresh(e, ttl) == e.valid /\ now < e.at + ttl

StoreSetAll(ctl, device, value) == [d \in Devices |-> ToJson(value)]

(* line 188: control_ref.child(f'{device}_override').set(value) *)
StoreSet(ctl, device, value) == [ctl EXCEPT ![device] = ToJson(value)]

-----------------------------------------------------------------------------
(* Widgets *)

NoWidget == [present |-> FALSE, default |-> FALSE, value |-> FALSE]

(* st.toggle(label, value=default, key=...): the widget keeps the user's
   value while its definition (and so its identity) is unchanged; a toggle
   defined with another default is a new widget showing that default *)
ToggleValue(w, default) ==
    IF w.present /\ w.default = default THEN w.value ELSE default

(* end of a run (also one ended by st.rerun): state of widgets that were not
   rendered in the run is dropped *)
DropStale(sess, shown) == [d \in Devices |-> IF d \in shown THEN sess[d] ELSE NoWidget]

ReadPc   == [light |-> "light_read", relay |-> "relay_read"]
TogglePc == [light |-> "light_toggle", relay |-> "relay_toggle"]

-----------------------------------------------------------------------------
(* User events.  They arrive between runs. *)

RunStart ==
    /\ pc' = "init"
    /\ outcome' = "running"
    /\ root_ref' = FALSE
    /\ rendered' = {}
    /\ view' = "none"
    /\ storeOps' = {}
    /\ failed' = {}
    /\ cur' = [d \in Devices |-> FALSE]
    /\ status' = << NA, NA >>
    /\ rawLogs' = << >>
    /\ df_history' = << >>
    /\ table' = << >>

NewEvent(e) ==
    /\ lastEvent' = e
    /\ writes' = 0
    /\ reruns' = 0

(* the page is loaded or re-run by the user *)
Refresh ==
    /\ pc = "idle"
    /\ RunStart
    /\ NewEvent("refresh")
    /\ UNCHANGED << processVars, app, initCount, credLoads, storeVars, now,
                    cacheVars, selected, session, faults >>

(* the user picks a page in the sidebar menu (lines 117-124) *)
Navigate(p) ==
    /\ pc = "idle"
    /\ view # "none"
    /\ p # selected
    /\ selected' = p
    /\ RunStart
    /\ NewEvent("navigate")
    /\ UNCHANGED << processVars, app, initCount, credLoads, storeVars, now,
                    cacheVars, session, faults >>

(* the user flips a toggle that is on the screen *)
Flip(d) ==
    /\ pc = "idle"
    /\ d \in rendered
    /\ session[d].present
    /\ session' = [session EXCEPT ![d].value = ~session[d].value]
    /\ RunStart
    /\ NewEvent("flip")
    /\ UNCHANGED << processVars, app, initCount, credLoads, storeVars, now,
                    cacheVars, selected, faults >>

(* time passes between runs *)
Tick ==
    /\ pc \in {"idle", "init"}
    /\ now < MaxTime
    /\ now' = now + TickStep
    /\ UNCHANGED << processVars, app, initCount, credLoads, storeVars,
                    cacheVars, selected, session, pc, outcome, root_ref,
                    pageVars, rendered, view, storeOps, failed, faults,
                    writes, reruns, lastEvent >>

-----------------------------------------------------------------------------
(* init_firebase, lines 17-57 *)

AppExistsNever == FALSE

(* lines 19-21: get_app() raises ValueError when no app exists *)
AppExists == app

SecretsAssumed == TRUE

(* line 30: all(key in st.secrets for key in required_keys) *)
SecretsComplete == RequiredKeys \subseteq secrets

(* st.stop(): the run ends here; StopException passes `except Exception` *)
Stop ==
    /\ pc' = "idle"
    /\ outcome' = "stopped"

InitFirebase ==
    /\ pc = "init"
    /\ IF AppExists
       THEN /\ root_ref' = TRUE
            /\ pc' = "menu"
            /\ UNCHANGED << app, initCount, credLoads, outcome >>
       ELSE /\ credLoads' = Bump(credLoads)
            /\ IF SecretsComplete /\ malformed = "no"
               THEN /\ app' = TRUE                  \* line 47
                    /\ initCount' = Bump(initCount)
                    /\ root_ref' = TRUE             \* line 53
                    /\ pc' = "menu"
                    /\ UNCHANGED outcome
               ELSE /\ Stop                         \* lines 44-45, 50-51
                    /\ UNCHANGED << app, initCount, root_ref >>
    /\ UNCHANGED << processVars, storeVars, now, cacheVars, selected, session,
                    pageVars, rendered, view, storeOps, failed, faults,
                    writes, reruns, lastEvent >>

(* lines 117-127, 168: the menu returns the selected page *)
Menu ==
    /\ pc = "menu"
    /\ view' = selected
    /\ pc' = IF selected = Options[1] THEN "history" ELSE "status"
    /\ UNCHANGED << processVars, app, initCount, credLoads, storeVars, now,
                    cacheVars, selected, session, outcome, root_ref, pageVars,
                    rendered, storeOps, failed, faults, writes, reruns,
                    lastEvent >>

-----------------------------------------------------------------------------
(* Remote store operations may fail (transport / auth errors). *)

FailChoices == IF faults < MaxFaults THEN BOOLEAN ELSE {FALSE}

ReadOp  == [light |-> "read_light", relay |-> "read_relay"]
WriteOp == [light |-> "write_light", relay |-> "write_relay"]

Attempt(op, fail) ==
    /\ storeOps' = storeOps \cup {op}
    /\ failed' = IF fail THEN failed \cup {op} ELSE failed
    /\ faults' = IF fail THEN faults + 1 ELSE faults

(* the script reached its end (or st.rerun): stale widget state is dropped *)
Finish(sess, shown) ==
    /\ session' = DropStale(sess, shown)
    /\ pc' = "idle"
    /\ outcome' = "done"

-----------------------------------------------------------------------------
(* Data History page, lines 127-165, with get_data_history, lines 61-113 *)

(* the body of get_data_history: the results it can return *)
GetDataHistory(fail) ==
    IF fail
    THEN { [raw |-> << >>, df |-> << >>] }              \* lines 111-113
    ELSE LET raw  == FetchLogs(data_logs, Limit)        \* line 72
             rows == BuildRows(raw)                     \* lines 77-99
         IN  { [raw |-> raw, df |-> d] : d \in SortIndex(rows, TRUE) }

HistoryPage ==
    /\ pc = "history"
    /\ IF Fresh(histCache, HistoryTTL)
       THEN /\ df_history' = histCache.val
            /\ UNCHANGED << histCache, rawLogs, storeOps, failed, faults >>
       ELSE \E fail \in FailChoices : \E r \in GetDataHistory(fail) :
            /\ df_history' = r.df
            /\ rawLogs' = r.raw
            /\ histCache' = Entry(r.df)
            /\ Attempt("history", fail)
    /\ \E t \in SortIndex(df_history', FALSE) : table' = t    \* line 164
    /\ Finish(session, rendered)
    /\ UNCHANGED << processVars, app, initCount, credLoads, storeVars, now,
                    statusCache, ctrlCache, selected, root_ref, cur, status,
                    rendered, view, writes, reruns, lastEvent >>

-----------------------------------------------------------------------------
(* Control page, lines 168-243 *)

(* read_current_status, lines 175-181 and 206: no try/except around .get() *)
ReadStatus ==
    /\ pc = "status"
    /\ IF Fresh(statusCache, StatusTTL)
       THEN /\ status' = statusCache.val
            /\ pc' = "light_read"
            /\ UNCHANGED << statusCache, storeOps, failed, faults, outcome >>
       ELSE \E fail \in FailChoices :
            /\ Attempt("status", fail)
            /\ IF fail
               THEN /\ pc' = "idle"              \* the exception leaves the script
                    /\ outcome' = "exception"
                    /\ UNCHANGED << status, statusCache >>
               ELSE /\ status' = StatusOf(current_status)
                    /\ statusCache' = Entry(StatusOf(current_status))
                    /\ pc' = "light_read"
                    /\ UNCHANGED outcome
    /\ UNCHANGED << processVars, app, initCount, credLoads, storeVars, now,
                    histCache, ctrlCache, selected, session, root_ref, cur,
                    rawLogs, df_history, table, rendered, view, writes, reruns,
                    lastEvent >>

(* get_current_control_state(device), lines 194-201, called at 216 / 232 *)
GetControlState(d) ==
    /\ pc = ReadPc[d]
    /\ IF Fresh(ctrlCache[d], ControlTTL)
       THEN /\ cur' = [cur EXCEPT ![d] = ctrlCache[d].val]
            /\ UNCHANGED << ctrlCache, storeOps, failed, faults >>
       ELSE \E fail \in FailChoices :
            LET state == IF fail THEN FALSE ELSE Bool(controls[d])
            IN  /\ cur' = [cur EXCEPT ![d] = state]
                /\ ctrlCache' = [ctrlCache EXCEPT ![d] = Entry(state)]
                /\ Attempt(ReadOp[d], fail)
    /\ pc' = TogglePc[d]
    /\ UNCHANGED << processVars, app, initCount, credLoads, storeVars, now,
                    histCache, statusCache, selected, session, outcome,
                    root_ref, status, rawLogs, df_history, table, rendered,
                    view, writes, reruns, lastEvent >>

(* the toggle and the write, lines 218-226 / 234-242, with set_override,
   lines 185-191 *)
ToggleControl(d) ==
    /\ pc = TogglePc[d]
    /\ LET tv    == ToggleValue(session[d], cur[d])
           sess1 == [session EXCEPT
                        ![d] = [present |-> TRUE, default |-> cur[d], value |-> tv]]
           shown == rendered \cup {d}
       IN  /\ rendered' = shown
           /\ IF tv # cur[d]
              THEN \E fail \in FailChoices :
                   /\ controls' = IF fail THEN controls
                                  ELSE StoreSet(controls, d, tv)
                   /\ Attempt(WriteOp[d], fail)
                   /\ writes' = Bump(writes)
                   /\ session' = sess1
                   /\ pc' = "rerun"
                   /\ UNCHANGED outcome
              ELSE /\ IF d = "light"
                      THEN /\ pc' = "relay_read"
                           /\ session' = sess1
                           /\ UNCHANGED outcome
                      ELSE Finish(sess1, shown)
                   /\ UNCHANGED << controls, storeOps, failed, faults, writes >>
    /\ UNCHANGED << processVars, app, initCount, credLoads, current_status,
                    data_logs, now, cacheVars, selected, root_ref, pageVars,
                    view, reruns, lastEvent >>

(* st.rerun(), lines 227 / 243: this run ends and the script starts again *)
Rerun ==
    /\ pc = "rerun"
    /\ session' = DropStale(session, rendered)
    /\ reruns' = Bump(reruns)
    /\ RunStart
    /\ UNCHANGED << processVars, app, initCount, credLoads, storeVars, now,
                    cacheVars, selected, faults, writes, lastEvent >>

-----------------------------------------------------------------------------
(* Initial states *)

Decimal(i) ==
    IF i < 10 THEN << DigitChars[i + 1] >>
    ELSE << DigitChars[(i \div 10) + 1], DigitChars[(i % 10) + 1] >>
Padded(i) == IF i < 10 THEN << "0" >> \o Decimal(i) ELSE Decimal(i)

K(i) == << "k" >> \o Decimal(i)       \* the literal keys k1, k2, ..., k20
P(i) == << "k" >> \o Padded(i)        \* zero-padded keys k01, k02, ..., k20

Text1700000000 == << "1", "7", "0", "0", "0", "0", "0", "0", "0", "0" >>

TsVals ==
    { TsInt(0), TsInt(5), TsInt(1700000000),
      TsStr(Text1700000000), TsStr(<< "5" >>), TsStr(<< "-", "5" >>),
      TsStr(<< " ", "5", " " >>), TsStr(<< "1", "_", "0" >>),
      TsStr(<< "5", ".", "0" >>), TsStr(<< "x" >>), TsStr(<< >>),
      TsStr(<< "_", "5" >>) }

AnyLogs ==
    {NullLog}
    \cup { Log(fs, TsInt(0), 20) : fs \in SUBSET {"sensor_logs", "actuator_logs"} }
    \cup { Log(fs \cup {"timestamp"}, ts, 20) :
             fs \in SUBSET {"sensor_logs", "actuator_logs"}, ts \in TsVals }

FewLogs ==
    { NullLog,
      Log({"timestamp", "sensor_logs"}, TsInt(5), 20),
      Log({"timestamp", "actuator_logs"}, TsInt(5), 20),
      Log(AllFields, TsInt(5), 20),
      Log(AllFields, TsInt(5), 21),
      Log(AllFields, TsStr(<< "5" >>), 22),
      Log(AllFields, TsInt(3), 20),
      Log({"sensor_logs", "actuator_logs"}, TsInt(0), 20) }

PlainStore(padded, m) ==
    LET key(i) == IF padded THEN P(i) ELSE K(i)
    IN  [k \in { key(i) : i \in 1..m } |->
            Log(AllFields,
                TsInt(1700000000 + 60 * (CHOOSE i \in 1..m : key(i) = k)), 20)]

EmptyStore == PlainStore(FALSE, 0)

HistStores ==
    { [k \in {K(1)} |-> r] : r \in AnyLogs }
    \cup UNION { [ { K(i) : i \in 1..m } -> FewLogs ] : m \in 2..MaxRecs }
    \cup { PlainStore(FALSE, m) : m \in 0..MaxKeys }
    \cup { PlainStore(TRUE, m) : m \in 1..MaxKeys }

TiedStore ==
    [k \in {K(1), K(2)} |-> Log(AllFields, TsInt(5), IF k = K(1) THEN 20 ELSE 21)]

SecretSets ==
    {RequiredKeys, {}} \cup { RequiredKeys \ {k} : k \in RequiredKeys }

InitWith(stores, secretSets, flaws, flags) ==
    /\ secrets \in secretSets
    /\ malformed \in flaws
    /\ app = FALSE
    /\ initCount = 0
    /\ credLoads = 0
    /\ controls \in [Devices -> flags]
    /\ current_status \in Statuses
    /\ data_logs \in stores
    /\ now = 0
    /\ histCache = NoEntry(<< >>)
    /\ statusCache = NoEntry(<< NA, NA >>)
    /\ ctrlCache = [d \in Devices |-> NoEntry(FALSE)]
    /\ selected = Options[DefaultIndex + 1]
    /\ session = [d \in Devices |-> NoWidget]
    /\ pc = "idle"
    /\ outcome = "none"
    /\ root_ref = FALSE
    /\ cur = [d \in Devices |-> FALSE]
    /\ status = << NA, NA >>
    /\ rawLogs = << >>
    /\ df_history = << >>
    /\ table = << >>
    /\ rendered = {}
    /\ view = "none"
    /\ storeOps = {}
    /\ failed = {}
    /\ faults = 0
    /\ writes = 0
    /\ reruns = 0
    /\ lastEvent = "none"

(* The dashboard: any credentials, a small data_logs *)
Init == InitWith({EmptyStore, TiedStore}, SecretSets, {"no", "cert", "app"}, JsonBools)

Next ==
    \/ Refresh
    \/ \E p \in { Options[i] : i \in 1..Len(Options) } : Navigate(p)
    \/ \E d \in Devices : Flip(d)
    \/ Tick
    \/ InitFirebase
    \/ Menu
    \/ HistoryPage
    \/ ReadStatus
    \/ \E d \in Devices : GetControlState(d)
    \/ \E d \in Devices : ToggleControl(d)
    \/ Rerun

Spec == Init /\ [][Next]_vars

(* The Data History page over many contents of data_logs *)
InitHist ==
    InitWith(HistStores, {RequiredKeys}, {"no"}, {"false"})
    /\ current_status = NullStatus

NextHist ==
    \/ Refresh
    \/ Tick
    \/ InitFirebase
    \/ Menu
    \/ HistoryPage

SpecHist == InitHist /\ [][NextHist]_vars

-----------------------------------------------------------------------------
(* Properties *)

(* the body of get_data_history ran in this run and its query succeeded *)
Fetched == "history" \in storeOps /\ "history" \notin failed

FetchedKeys == { rawLogs[i][1] : i \in 1..Len(rawLogs) }

HasBothGroups(log) ==
    ~log.null /\ {"sensor_logs", "actuator_logs"} \subseteq log.fields

ValidIndices == { i \in 1..Len(rawLogs) : HasBothGroups(rawLogs[i][2]) }

(* C1: the value read for a ControlFlag equals the value the store holds at
   controls/{device}_override at the time of the read (no store failure
   involved): right after the read, cur[d] is the store's flag. *)
C1_ReadReflectsStore ==
    \A d \in Devices :
        (pc = TogglePc[d] /\ faults = 0) => cur[d] = Bool(controls[d])

(* C2: no failing store operation lets its exception leave the run: a failed
   history read gives an empty frame, a failed status read gives
   ('N/A', 'N/A'), a failed flag read gives False, and after a failed write
   the run goes on. *)
C2_FailuresGiveDefaults ==
    /\ outcome # "exception"
    /\ "history" \in failed => df_history = << >>
    /\ "status" \in failed => status = << NA, NA >>
    /\ \A d \in Devices : ReadOp[d] \in failed => cur[d] = FALSE
    /\ \A d \in Devices : WriteOp[d] \in failed => outcome = "running"

(* C3, general part: the fetch returns, in ascending key order, the entries
   of data_logs with the largest keys: exactly Limit of them when the store
   holds at least Limit entries, all of them otherwise. *)
C3_LargestKeys ==
    Fetched =>
        /\ \A i \in 1..Len(rawLogs) :
              /\ rawLogs[i][1] \in DOMAIN data_logs
              /\ rawLogs[i][2] = data_logs[rawLogs[i][1]]
        /\ \A i, j \in 1..Len(rawLogs) :
              i < j => KeyLess(rawLogs[i][1], rawLogs[j][1])
        /\ Len(rawLogs) = Min(Limit, Cardinality(DOMAIN data_logs))
        /\ \A k \in FetchedKeys : \A j \in (DOMAIN data_logs) \ FetchedKeys :
              KeyLess(j, k)

(* C3 as stated: with the 20 keys k1..k20 the 15 entries fetched are
   k6..k20. *)
C3_Original ==
    /\ C3_LargestKeys
    /\ (Fetched /\ DOMAIN data_logs = { K(i) : i \in 1..20 })
          => FetchedKeys = { K(i) : i \in 6..20 }

(* C3 as amended: the general part holds; with the 20 zero-padded keys
   k01..k20 the entries fetched are k06..k20, and with the 20 keys k1..k20,
   whose key order is lexicographic, they are k14..k19, k2, k20, k3..k9. *)
C3_LastByKeyOrder ==
    /\ C3_LargestKeys
    /\ (Fetched /\ DOMAIN data_logs = { P(i) : i \in 1..20 })
          => FetchedKeys = { P(i) : i \in 6..20 }
    /\ (Fetched /\ DOMAIN data_logs = { K(i) : i \in 1..20 })
          => FetchedKeys = { K(i) : i \in (14..19) \cup {2, 20} \cup (3..9) }

C3_Witness ==
    /\ Fetched
    /\ DOMAIN data_logs = { K(i) : i \in 1..20 }
    /\ Len(rawLogs) = Limit
    /\ K(2) \in FetchedKeys

(* C4: the frame holds exactly one row per fetched record that has both
   sensor_logs and actuator_logs, none for the others; so it never has more
   rows than there are records, and the run ends without an error. *)
C4_RowsOfValidRecords ==
    Fetched =>
        /\ Len(df_history) = Cardinality(ValidIndices)
        /\ Len(df_history) <= Len(rawLogs)
        /\ \A i \in ValidIndices :
              LET log == rawLogs[i][2]
                  same(r) == /\ r.temp = log.sensor_logs.temp
                             /\ r.humidity = log.sensor_logs.humidity
                             /\ r.light_lvl = log.sensor_logs.light_lvl
                             /\ r.motion_state = log.sensor_logs.motion_state
                             /\ r.relay_state = log.actuator_logs.relay_state
                             /\ r.light_state = log.actuator_logs.light_state
              IN  Cardinality({ j \in 1..Len(df_history) : same(df_history[j]) })
                  = Cardinality({ j \in ValidIndices :
                        rawLogs[j][2].sensor_logs = log.sensor_logs })
        /\ outcome = "done"

C4_Witness ==
    /\ Fetched
    /\ Len(rawLogs) = 3
    /\ Len(df_history) = 1
    /\ \E i \in 1..3 : rawLogs[i][2].null
    /\ \E i \in 1..3 : /\ ~rawLogs[i][2].null
                       /\ "actuator_logs" \notin rawLogs[i][2].fields

(* the integer a timestamp of the inputs stands for *)
ExpectedTs(log) ==
    IF "timestamp" \notin log.fields THEN 0
    ELSE IF log.timestamp.kind = "int" THEN log.timestamp.int
    ELSE IF log.timestamp.str = Text1700000000 THEN 1700000000
    ELSE IF log.timestamp.str = << "5" >> THEN 5
    ELSE IF log.timestamp.str = << " ", "5", " " >> THEN 5
    ELSE IF log.timestamp.str = << "-", "5" >> THEN 0 - 5
    ELSE IF log.timestamp.str = << "1", "_", "0" >> THEN 10
    ELSE 0

(* C5: no valid record is dropped over its timestamp: a text that parses as
   an integer gives that integer, a text that does not parse gives 0, a
   missing timestamp gives 0, an integer is kept. *)
C5_TimestampNormalized ==
    Fetched =>
        /\ Len(df_history) = Cardinality(ValidIndices)
        /\ \A i \in ValidIndices :
              LET log == rawLogs[i][2]
              IN  \E j \in 1..Len(df_history) :
                     /\ df_history[j].timestamp_ms = ExpectedTs(log)
                     /\ df_history[j].temp = log.sensor_logs.temp

C5_Witness ==
    /\ Fetched
    /\ Len(rawLogs) = 1
    /\ rawLogs[1][2].timestamp = TsStr(Text1700000000)
    /\ Len(df_history) = 1
    /\ df_history[1].timestamp_ms = 1700000000

(* C6: the rows of the table are the rows of the charts in exactly the
   reverse sequence. *)
C6_TableIsReverse ==
    (pc = "idle" /\ outcome = "done" /\ view = Options[1])
        => table = Reverse(df_history)

BadConfig == secrets # RequiredKeys \/ malformed # "no"

(* C7: with a secret absent or the credentials malformed, init_firebase
   halts the run: no app, no root reference, no store operation, no page;
   and the attempt is made once per run, which ends with it. *)
C7_BadConfigHalts ==
    /\ [](BadConfig =>
            /\ ~app
            /\ initCount = 0
            /\ ~root_ref
            /\ storeOps = {}
            /\ view = "none"
            /\ pc \in {"idle", "init"}
            /\ outcome \in {"none", "running", "stopped"})
    /\ [][(BadConfig /\ credLoads' # credLoads)
             => (pc' = "idle" /\ outcome' = "stopped")]_vars

C7_Witness ==
    /\ secrets = RequiredKeys \ {"firebase_private_key"}
    /\ malformed = "no"
    /\ outcome = "stopped"
    /\ credLoads = 2

(* C8: the store changes only by a Control View write: data_logs and
   current_status never change, a run of the History View changes nothing,
   and a change of the flags is the write of the toggle's value to the flag
   of the toggled device alone. *)
C8_StoreFrame ==
    [][ /\ data_logs' = data_logs
        /\ current_status' = current_status
        /\ view = Options[1] => controls' = controls
        /\ controls' # controls =>
              /\ view = Options[2]
              /\ \E d \in Devices :
                    /\ pc = TogglePc[d]
                    /\ WriteOp[d] \in storeOps'
                    /\ controls'[d] = ToJson(session'[d].value)
                    /\ \A e \in Devices \ {d} : controls'[e] = controls[e] ]_vars

C8_Witness ==
    /\ pc = "rerun"
    /\ "write_light" \in storeOps
    /\ failed = {}
    /\ controls["light"] = "true"
    /\ controls["relay"] = "null"
    /\ data_logs = TiedStore

(* C9: initialize_app succeeds at most once in a process, and a run that
   finds the app skips the credential branch and gets the root reference. *)
C9_ConnectOnce ==
    /\ [](initCount <= 1)
    /\ [][initCount' # initCount => (~app /\ app')]_vars
    /\ [][(pc = "init" /\ app /\ pc' # "init")
             => /\ pc' = "menu"
                /\ root_ref'
                /\ app'
                /\ initCount' = initCount
                /\ credLoads' = credLoads]_vars

C9_Witness ==
    /\ pc = "menu"
    /\ lastEvent = "flip"
    /\ reruns = 1
    /\ app
    /\ initCount = 1
    /\ credLoads = 1

(* C10: one flip of a toggle causes one set_override write and one rerun,
   and no more (no store failure involved). *)
C10_OneWritePerFlip ==
    (lastEvent = "flip" /\ faults = 0) => (writes <= 1 /\ reruns <= 1)

====
